---- MODULE Spec2Model ----
(***************************************************************************)
(* A model of fragment_parser.py: the character scanner parse_to_stream,   *)
(* the tree assembler parse_to_subtrees that consumes its events, and the  *)
(* serializer Element.write_to.                                            *)
(*                                                                         *)
(* A Python str is a sequence of one-character strings.  None, where the   *)
(* code uses it for an optional string, is the value None below; an        *)
(* optional object (current_tag, current_attribute) is a sequence of       *)
(* length 0 (None) or 1.  A list item that is either a str or an Element   *)
(* is a record with a "kind" field.                                        *)
(***************************************************************************)
EXTENDS Integers, Sequences, FiniteSets, TLC

VARIABLES
    data,               \* parse_to_stream: the fragment being parsed
    cursor,             \* parse_to_stream: index of the next character (0-based)
    state,              \* parse_to_stream: scanner state
    current_item_chars, \* parse_to_stream: characters accumulated so far
    scan_pc,            \* the generator: "running", "exhausted" or "raised"
    pending,            \* events yielded by the generator, not yet consumed by the for loop
    stack,              \* parse_to_subtrees: open elements, innermost last
    current_tag,        \* parse_to_subtrees: the tag in progress (0 or 1 element)
    current_attribute,  \* parse_to_subtrees: the attribute in progress (0 or 1 pair)
    output,             \* parse_to_subtrees: the forest built so far
    pc,                 \* parse_to_subtrees: "loop", "drain", "returned" or "raised"
    result,             \* what the caller of parse_to_subtrees gets
    next_id,            \* number of Element() objects allocated (object identity)
    events_consumed,    \* number of events the for loop has taken from the generator
    closed_ids,         \* history: ids of the elements popped by a closing tag
    drained_ids,        \* history: ids of the elements popped by the final drain
    opened,             \* history: text runs and element ids in the order they were attached or pushed
    events,             \* history: every event the generator has yielded, in order
    consumed_ids,       \* history: ids of the closing tags that closed the top of the stack
    calls,              \* two calls of parse_to_subtrees at once: the frame of each
    taken,              \* history: the steps each of the two calls has taken
    files,              \* api.py: the cache directory, relative URL -> bytes of the file or NoFile
    token_period,       \* TokenBucket.token_period
    token_limit,        \* TokenBucket.token_limit
    tokens,             \* TokenBucket.tokens
    current_to,         \* TokenBucket.current_to
    clock,              \* what datetime.now() returns
    requests,           \* history: the relative URLs given to urlopen, in order
    api_log             \* history: the calls of take and fetch that have ended, in order

vars == <<data, cursor, state, current_item_chars, scan_pc, pending, stack,
          current_tag, current_attribute, output, pc, result, next_id,
          events_consumed, closed_ids, drained_ids, opened, events,
          consumed_ids, calls, taken, files, token_period, token_limit, tokens,
          current_to, clock, requests, api_log>>

history_vars == <<closed_ids, drained_ids, opened, consumed_ids>>

pair_vars == <<calls, taken>>

api_vars == <<files, token_period, token_limit, tokens, current_to, clock,
              requests, api_log>>

-----------------------------------------------------------------------------
(* Bounds of the model. *)

\* Every string over Alphabet of at most this length is an input.
MaxLen == 4
\* Every concatenation of at most this many Pieces is an input.
MaxPieces == 4

-----------------------------------------------------------------------------
(* Strings. *)

None == <<"None">>

WHITESPACE == {" ", "\t", "\n"}

Alphabet == {"<", ">", "/", "=", "\"", "'", " ", "a", "b"}

Strings(n) == UNION {[1..k -> Alphabet] : k \in 0..n}

RECURSIVE Concat(_)
Concat(ss) == IF ss = <<>> THEN <<>> ELSE Head(ss) \o Concat(Tail(ss))

Pieces ==
    { <<"<", "a", ">">>,
      <<"<", "b", ">">>,
      <<"<", "/", "a", ">">>,
      <<"<", "/", "b", ">">>,
      <<"<", "b", "/", ">">>,
      <<"<", "b", " ", "/", ">">>,
      <<"b">> }

PieceStrings(n) == {Concat(ps) : ps \in UNION {[1..k -> Pieces] : k \in 0..n}}

\* The fragments the specification's examples name, over the model's alphabet.
Examples ==
    { <<"<","a",">","<","b",">","<","/","a",">">>,                       \* <a><b></a>
      <<"<","a",">","a","<","b","/",">","b">>,                           \* <a>a<b/>b
      <<"<","a"," ","b",">">>,                                           \* <a b>
      <<"<","a"," ","b","=","\"","a",">","b","\"",">","b","<","/","a",">">>, \* <a b="a>b">b</a>
      <<"<","a"," ","b","=">>,                                           \* <a b=
      <<"<","a",">","<","b",">","<","a",">","b">>,                       \* <a><b><a>b
      <<"<","/","a","/",">">>,                                           \* </a/>
      <<"<","a"," ","b","=","'","a","'"," ","b","/",">">>,               \* <a b='a' b/>
      <<"<","a"," ","b",">","a","<","/","b"," ","a",">">> }              \* <a b>a</b a>

\* For each state of the scanner a shortest fragment that leads to it, followed
\* by each character.
Prefixes ==
    { <<>>,                                  \* TEXT
      <<"<">>,                               \* IN_TAG_START
      <<"<","a">>,                           \* IN_NAME
      <<"<","a"," ">>,                       \* IN_TAG
      <<"<","a"," ","b","=">>,               \* IN_VALUE_START
      <<"<","a"," ","b","=","a">>,           \* IN_VALUE
      <<"<","a"," ","b","=","\"">>,          \* IN_DOUBLE_QUOTED_VALUE
      <<"<","a"," ","b","=","'">> }          \* IN_SINGLE_QUOTED_VALUE

\* The alphabet and the whitespace it lacks: tab and newline, which the scanner
\* takes for whitespace, and carriage return, which it does not.
ProbeChars == Alphabet \cup {"\t", "\n", "\r"}

Probes == {p \o <<c>> : p \in Prefixes, c \in ProbeChars}

Inputs == Strings(MaxLen) \cup PieceStrings(MaxPieces) \cup Examples \cup Probes

-----------------------------------------------------------------------------
(* parse_to_stream: the scanner. *)

Event(type, text) == [type |-> type, text |-> text]

\* finish() raises for the states that accumulate nothing.
CanFinish(s) == s \in {"TEXT", "IN_NAME", "IN_VALUE", "IN_VALUE_START"}

\* finish(): the event for what has been accumulated in state s.
Finish(s, chars) ==
    IF s = "TEXT" THEN Event("CHARACTERS", chars)
    ELSE IF s = "IN_NAME" THEN Event("NAME", chars)
    ELSE Event("ATTRIBUTE_VALUE", chars)

Step(s, chars, yields) == [state |-> s, chars |-> chars, yields |-> yields]

\* One iteration of the scanner's loop on character c, state by state: the
\* next state, the accumulator and the events yielded, in order.

\* state == 'TEXT'
ScanText(chars, c) ==
    IF c = "<"
    THEN Step("IN_TAG_START", <<>>, <<Finish("TEXT", chars), Event("START_TAG", None)>>)
    ELSE Step("TEXT", Append(chars, c), <<>>)

\* ScanTagStart, had a ">" right after "<" ended the tag.
ScanTagStart_GtEndsTag(chars, c) ==
    IF c = "/" THEN Step("IN_TAG_START", chars, <<Event("TAG_IS_CLOSING", None)>>)
    ELSE IF c \in WHITESPACE THEN Step("IN_TAG_START", chars, <<>>)
    ELSE IF c = ">" THEN Step("TEXT", chars, <<Event("END_TAG", None)>>)
    ELSE Step("IN_NAME", Append(chars, c), <<>>)

\* state == 'IN_TAG_START'
ScanTagStart(chars, c) ==
    IF c = "/" THEN Step("IN_TAG_START", chars, <<Event("TAG_IS_CLOSING", None)>>)
    ELSE IF c \in WHITESPACE THEN Step("IN_TAG_START", chars, <<>>)
    ELSE Step("IN_NAME", Append(chars, c), <<>>)

\* ScanName, had a "<" inside a name started the next tag.
ScanName_LtStartsTag(chars, c) ==
    IF c = ">"
    THEN Step("TEXT", <<>>, <<Finish("IN_NAME", chars), Event("END_TAG", None)>>)
    ELSE IF c = "<"
    THEN Step("IN_TAG_START", <<>>, <<Finish("IN_NAME", chars), Event("START_TAG", None)>>)
    ELSE IF c = "/"
    THEN Step("IN_TAG", <<>>, <<Finish("IN_NAME", chars), Event("TAG_IS_SELF_CLOSING", None)>>)
    ELSE IF c = "=" THEN Step("IN_VALUE_START", <<>>, <<Finish("IN_NAME", chars)>>)
    ELSE IF c \in WHITESPACE THEN Step("IN_TAG", <<>>, <<Finish("IN_NAME", chars)>>)
    ELSE Step("IN_NAME", Append(chars, c), <<>>)

\* state == 'IN_NAME'
ScanName(chars, c) ==
    IF c = ">"
    THEN Step("TEXT", <<>>, <<Finish("IN_NAME", chars), Event("END_TAG", None)>>)
    ELSE IF c = "/"
    THEN Step("IN_TAG", <<>>, <<Finish("IN_NAME", chars), Event("TAG_IS_SELF_CLOSING", None)>>)
    ELSE IF c = "=" THEN Step("IN_VALUE_START", <<>>, <<Finish("IN_NAME", chars)>>)
    ELSE IF c \in WHITESPACE THEN Step("IN_TAG", <<>>, <<Finish("IN_NAME", chars)>>)
    ELSE Step("IN_NAME", Append(chars, c), <<>>)

\* ScanInTag without the branch for "=": it starts a name like any other character.
ScanInTag_EqualsStartsName(chars, c) ==
    IF c = ">" THEN Step("TEXT", chars, <<Event("END_TAG", None)>>)
    ELSE IF c = "/" THEN Step("IN_TAG", chars, <<Event("TAG_IS_SELF_CLOSING", None)>>)
    ELSE IF c \in WHITESPACE THEN Step("IN_TAG", chars, <<>>)
    ELSE Step("IN_NAME", Append(chars, c), <<>>)

\* state == 'IN_TAG'
ScanInTag(chars, c) ==
    IF c = ">" THEN Step("TEXT", chars, <<Event("END_TAG", None)>>)
    ELSE IF c = "/" THEN Step("IN_TAG", chars, <<Event("TAG_IS_SELF_CLOSING", None)>>)
    ELSE IF c \in WHITESPACE THEN Step("IN_TAG", chars, <<>>)
    ELSE IF c = "=" THEN Step("IN_VALUE_START", chars, <<>>)
    ELSE Step("IN_NAME", Append(chars, c), <<>>)

\* state == 'IN_VALUE_START'
ScanValueStart(chars, c) ==
    IF c = "\"" THEN Step("IN_DOUBLE_QUOTED_VALUE", Append(chars, c), <<>>)
    ELSE IF c = "'" THEN Step("IN_SINGLE_QUOTED_VALUE", Append(chars, c), <<>>)
    ELSE IF c \in WHITESPACE THEN Step("IN_VALUE_START", chars, <<>>)
    ELSE IF c = "/"
    THEN Step("IN_TAG", <<>>,
              <<Finish("IN_VALUE_START", chars), Event("TAG_IS_SELF_CLOSING", None)>>)
    ELSE IF c = ">"
    THEN Step("TEXT", <<>>, <<Finish("IN_VALUE_START", chars), Event("END_TAG", None)>>)
    ELSE Step("IN_VALUE", Append(chars, c), <<>>)

\* state == 'IN_VALUE'
ScanValue(chars, c) ==
    IF c = "\"" THEN Step("IN_DOUBLE_QUOTED_VALUE", Append(chars, c), <<>>)
    ELSE IF c = "'" THEN Step("IN_SINGLE_QUOTED_VALUE", Append(chars, c), <<>>)
    ELSE IF c \in WHITESPACE THEN Step("IN_TAG", <<>>, <<Finish("IN_VALUE", chars)>>)
    ELSE IF c = "/"
    THEN Step("IN_TAG", <<>>, <<Finish("IN_VALUE", chars), Event("TAG_IS_SELF_CLOSING", None)>>)
    ELSE IF c = ">"
    THEN Step("TEXT", <<>>, <<Finish("IN_VALUE", chars), Event("END_TAG", None)>>)
    ELSE Step("IN_VALUE", Append(chars, c), <<>>)

\* ScanDoubleQuoted, had a ">" inside the quotes ended the tag.
ScanDoubleQuoted_GtEndsTag(chars, c) ==
    IF c = "\"" THEN Step("IN_VALUE", Append(chars, c), <<>>)
    ELSE IF c = ">"
    THEN Step("TEXT", <<>>, <<Event("ATTRIBUTE_VALUE", chars), Event("END_TAG", None)>>)
    ELSE Step("IN_DOUBLE_QUOTED_VALUE", Append(chars, c), <<>>)

\* state == 'IN_DOUBLE_QUOTED_VALUE'
ScanDoubleQuoted(chars, c) ==
    IF c = "\"" THEN Step("IN_VALUE", Append(chars, c), <<>>)
    ELSE Step("IN_DOUBLE_QUOTED_VALUE", Append(chars, c), <<>>)

\* state == 'IN_SINGLE_QUOTED_VALUE'
ScanSingleQuoted(chars, c) ==
    IF c = "'" THEN Step("IN_VALUE", Append(chars, c), <<>>)
    ELSE Step("IN_SINGLE_QUOTED_VALUE", Append(chars, c), <<>>)

\* The chain of `if state == ...` in the loop body.
ScanStep(s, chars, c) ==
    CASE s = "TEXT" -> ScanText(chars, c)
      [] s = "IN_TAG_START" -> ScanTagStart(chars, c)
      [] s = "IN_NAME" -> ScanName(chars, c)
      [] s = "IN_TAG" -> ScanInTag(chars, c)
      [] s = "IN_VALUE_START" -> ScanValueStart(chars, c)
      [] s = "IN_VALUE" -> ScanValue(chars, c)
      [] s = "IN_DOUBLE_QUOTED_VALUE" -> ScanDoubleQuoted(chars, c)
      [] s = "IN_SINGLE_QUOTED_VALUE" -> ScanSingleQuoted(chars, c)

-----------------------------------------------------------------------------
(* Element and the tree under construction. *)

\* Element.__init__; id stands for the identity of the new object.
NewElement(id) ==
    [kind |-> "element", id |-> id, tag_name |-> None,
     is_self_closing |-> FALSE, is_closed |-> FALSE, is_closing |-> FALSE,
     attributes |-> <<>>, children |-> <<>>]

\* A str item of a children list or of the forest.
TextItem(text) == [kind |-> "text", text |-> text]

Tree(stk, out) == [stack |-> stk, output |-> out]

\* AppendText, had every text run been made top-level.
AppendText_TopLevel(stk, out, text) ==
    Tree(stk, Append(out, TextItem(text)))

\* CHARACTERS with non-empty text: top-level, or a child of the innermost open tag.
AppendText(stk, out, text) ==
    IF Len(stk) = 0
    THEN Tree(stk, Append(out, TextItem(text)))
    ELSE Tree([stk EXCEPT ![Len(stk)].children = Append(@, TextItem(text))], out)

\* FlushAttribute, had the attributes been keyed by name: a later attribute of
\* the same name takes the place of the earlier one.
FlushAttribute_ByName(tag, attr) ==
    IF attr = <<>> THEN tag
    ELSE IF \E i \in 1..Len(tag.attributes) : tag.attributes[i][1] = attr[1][1]
    THEN [tag EXCEPT !.attributes =
             [i \in 1..Len(@) |-> IF @[i][1] = attr[1][1] THEN attr[1] ELSE @[i]]]
    ELSE [tag EXCEPT !.attributes = Append(@, attr[1])]

\* END_TAG: the pending attribute, if any, joins the tag's attributes.
FlushAttribute(tag, attr) ==
    IF attr # <<>> THEN [tag EXCEPT !.attributes = Append(@, attr[1])] ELSE tag

\* EndTagBranch, had it closed the top of the stack only for a closing tag of
\* the same name.
EndTagBranch_MatchByName(stk, tag) ==
    IF Len(stk) > 0 /\ tag.is_closing /\ tag.tag_name = stk[Len(stk)].tag_name THEN "close"
    ELSE IF tag.is_self_closing THEN "leaf"
    ELSE IF tag.is_closing THEN "unexpected"
    ELSE "open"

\* EndTagBranch, had it tested for an opening tag before a self-closing one.
EndTagBranch_PushSelfClosing(stk, tag) ==
    IF Len(stk) > 0 /\ tag.is_closing THEN "close"
    ELSE IF ~tag.is_closing THEN "open"
    ELSE IF tag.is_self_closing THEN "leaf"
    ELSE "unexpected"

\* EndTagBranch, had it no branch for the unwanted closing tag.
EndTagBranch_KeepUnmatched(stk, tag) ==
    IF Len(stk) > 0 /\ tag.is_closing THEN "close"
    ELSE IF tag.is_self_closing \/ tag.is_closing THEN "leaf"
    ELSE "open"

\* END_TAG: which of the four branches the finished tag takes.
EndTagBranch(stk, tag) ==
    IF Len(stk) > 0 /\ tag.is_closing THEN "close"
    ELSE IF tag.is_self_closing THEN "leaf"
    ELSE IF tag.is_closing THEN "unexpected"
    ELSE "open"

\* CloseTag, had it marked and attached the top of the stack without taking
\* it off the stack.
CloseTag_NotPopped(stk, out) ==
    LET tag_closed == [stk[Len(stk)] EXCEPT !.is_closed = TRUE]
        marked == [stk EXCEPT ![Len(stk)] = tag_closed]
    IN  IF Len(stk) > 1
        THEN Tree([marked EXCEPT ![Len(stk) - 1].children = Append(@, tag_closed)], out)
        ELSE Tree(marked, Append(out, tag_closed))

\* END_TAG of a closing tag, stack non-empty: pop the top, mark it closed,
\* make it a child of the next thing up or a root.
CloseTag(stk, out) ==
    LET tag_closed == [stk[Len(stk)] EXCEPT !.is_closed = TRUE]
        popped == SubSeq(stk, 1, Len(stk) - 1)
    IN  IF Len(popped) > 0
        THEN Tree([popped EXCEPT ![Len(popped)].children = Append(@, tag_closed)], out)
        ELSE Tree(popped, Append(out, tag_closed))

\* AttachLeaf without its else branch: a leaf met with the stack empty is dropped.
AttachLeaf_OnlyAsChild(stk, out, tag) ==
    IF Len(stk) > 0
    THEN Tree([stk EXCEPT ![Len(stk)].children = Append(@, tag)], out)
    ELSE Tree(stk, out)

\* END_TAG of a self-closing tag: a leaf of the innermost open tag, or a root.
AttachLeaf(stk, out, tag) ==
    IF Len(stk) > 0
    THEN Tree([stk EXCEPT ![Len(stk)].children = Append(@, tag)], out)
    ELSE Tree(stk, Append(out, tag))

\* DrainOne, had it marked the unclosed tag closed as CloseTag does.
DrainOne_MarkClosed(stk, out) ==
    LET unclosed_tag == [stk[Len(stk)] EXCEPT !.is_closed = TRUE]
        popped == SubSeq(stk, 1, Len(stk) - 1)
    IN  IF Len(popped) > 0
        THEN Tree([popped EXCEPT ![Len(popped)].children = Append(@, unclosed_tag)], out)
        ELSE Tree(popped, Append(out, unclosed_tag))

\* DrainOne, had it made every unclosed tag a root.
DrainOne_AllRoots(stk, out) ==
    Tree(SubSeq(stk, 1, Len(stk) - 1), Append(out, stk[Len(stk)]))

\* DrainOne, had it read the top of the stack with stack[-1] and left it there.
DrainOne_PeekTop(stk, out) ==
    LET unclosed_tag == stk[Len(stk)]
    IN  IF Len(stk) > 1
        THEN Tree([stk EXCEPT ![Len(stk) - 1].children = Append(@, unclosed_tag)], out)
        ELSE Tree(stk, Append(out, unclosed_tag))

\* One iteration of the final loop over the unclosed tags.
DrainOne(stk, out) ==
    LET unclosed_tag == stk[Len(stk)]
        popped == SubSeq(stk, 1, Len(stk) - 1)
    IN  IF Len(popped) > 0
        THEN Tree([popped EXCEPT ![Len(popped)].children = Append(@, unclosed_tag)], out)
        ELSE Tree(popped, Append(out, unclosed_tag))

-----------------------------------------------------------------------------
(* Element.write_to: what it writes to the stream, as one string. *)

\* `if self.tag_name:` is false for None and for the empty string.
WriteName(e) == IF e.tag_name # None /\ e.tag_name # <<>> THEN e.tag_name ELSE <<>>

RECURSIVE WriteAttributes(_)
WriteAttributes(attributes) ==
    IF attributes = <<>> THEN <<>>
    ELSE LET attribute == Head(attributes)[1]
             value == Head(attributes)[2]
         IN  <<" ">> \o attribute
             \o (IF value # None THEN <<"=">> \o value ELSE <<>>)
             \o WriteAttributes(Tail(attributes))

\* WriteOpen, had it no `if self.is_self_closing: stream.write('/')`.
WriteOpen_NoSelfClosingSlash(e, indent) ==
    indent \o <<"<">>
    \o (IF e.is_closing THEN <<"/">> ELSE <<>>)
    \o WriteName(e)
    \o WriteAttributes(e.attributes)
    \o <<">">>

\* The opening tag: from stream.write(indent) to stream.write('>').
WriteOpen(e, indent) ==
    indent \o <<"<">>
    \o (IF e.is_closing THEN <<"/">> ELSE <<>>)
    \o WriteName(e)
    \o WriteAttributes(e.attributes)
    \o (IF e.is_self_closing THEN <<"/">> ELSE <<>>)
    \o <<">">>

\* WriteClose, had it closed every element that is not self-closing.
WriteClose_UnlessSelfClosing(e, indent) ==
    IF ~e.is_self_closing THEN indent \o <<"<", "/">> \o WriteName(e) \o <<">">> ELSE <<>>

\* The closing tag, written only for a closed element.
WriteClose(e, indent) ==
    IF e.is_closed THEN indent \o <<"<", "/">> \o WriteName(e) \o <<">">> ELSE <<>>

RECURSIVE WriteTo(_, _, _, _)
RECURSIVE WriteChildren(_, _, _, _)

WriteChildren(children, indent, add_indent, newline) ==
    IF children = <<>> THEN <<>>
    ELSE LET child == Head(children)
         IN  (IF child.kind = "element"
              THEN WriteTo(child, indent \o add_indent, add_indent, newline) \o newline
              ELSE indent \o add_indent \o child.text \o newline)
             \o WriteChildren(Tail(children), indent, add_indent, newline)

WriteTo(e, indent, add_indent, newline) ==
    WriteOpen(e, indent)
    \o (IF Len(e.children) > 0 THEN newline ELSE <<>>)
    \o WriteChildren(e.children, indent, add_indent, newline)
    \o WriteClose(e, indent)

\* An exception leaving parse_to_subtrees: its locals, output among them, are gone.
Raised(exception, message) ==
    [kind |-> "raise", exception |-> exception, message |-> message]

\* return output
Returned(out) == [kind |-> "return", value |-> out]

-----------------------------------------------------------------------------
(* The state after parse_to_subtrees(data) has set up its locals and made the generator. *)

Init ==
    /\ data \in Inputs
    /\ cursor = 0
    /\ state = "TEXT"
    /\ current_item_chars = <<>>
    /\ scan_pc = "running"
    /\ pending = <<>>
    /\ stack = <<>>
    /\ current_tag = <<>>
    /\ current_attribute = <<>>
    /\ output = <<>>
    /\ pc = "loop"
    /\ result = [kind |-> "none"]
    /\ next_id = 0
    /\ events_consumed = 0
    /\ closed_ids = {}
    /\ drained_ids = {}
    /\ opened = <<>>
    /\ events = <<>>
    /\ consumed_ids = {}
    /\ calls = <<>>
    /\ taken = <<>>
    /\ files = <<>>
    /\ token_period = 0
    /\ token_limit = 0
    /\ tokens = 0
    /\ current_to = 0
    /\ clock = 0
    /\ requests = <<>>
    /\ api_log = <<>>

-----------------------------------------------------------------------------
(* The generator, resumed by the for loop when it wants the next event. *)

\* One iteration of `while cursor < len(data)`.
ScanChar ==
    /\ pc = "loop" /\ scan_pc = "running" /\ pending = <<>>
    /\ cursor < Len(data)
    /\ LET r == ScanStep(state, current_item_chars, data[cursor + 1])
       IN  /\ state' = r.state
           /\ current_item_chars' = r.chars
           /\ pending' = r.yields
           /\ events' = events \o r.yields
    /\ cursor' = cursor + 1
    /\ UNCHANGED <<data, scan_pc, stack, current_tag, current_attribute, output,
                   pc, result, next_id, events_consumed>>
    /\ UNCHANGED history_vars
    /\ UNCHANGED pair_vars
    /\ UNCHANGED api_vars

\* The `yield finish()` after the loop; a RuntimeError of finish() leaves the
\* generator and then parse_to_subtrees.
ScanEnd ==
    /\ pc = "loop" /\ scan_pc = "running" /\ pending = <<>>
    /\ cursor = Len(data)
    /\ IF CanFinish(state)
       THEN /\ pending' = <<Finish(state, current_item_chars)>>
            /\ events' = Append(events, Finish(state, current_item_chars))
            /\ current_item_chars' = <<>>
            /\ scan_pc' = "exhausted"
            /\ UNCHANGED <<pc, result>>
       ELSE /\ scan_pc' = "raised"
            /\ pc' = "raised"
            /\ result' = Raised("RuntimeError", <<"Cannot finish ", state>>)
            /\ UNCHANGED <<pending, current_item_chars, events>>
    /\ UNCHANGED <<data, cursor, state, stack, current_tag, current_attribute,
                   output, next_id, events_consumed>>
    /\ UNCHANGED history_vars
    /\ UNCHANGED pair_vars
    /\ UNCHANGED api_vars

-----------------------------------------------------------------------------
(* parse_to_subtrees: the body of `for event_type, event_text in stream`. *)

Takes(type) ==
    /\ pc = "loop" /\ pending # <<>>
    /\ Head(pending).type = type
    /\ pending' = Tail(pending)
    /\ events_consumed' = events_consumed + 1
    /\ UNCHANGED <<data, cursor, state, current_item_chars, scan_pc, events>>
    /\ UNCHANGED pair_vars
    /\ UNCHANGED api_vars

Fails(exception, message) ==
    /\ pc' = "raised"
    /\ result' = Raised(exception, message)

\* OnCharacters without the test `len(event_text) > 0`: empty runs are kept.
OnCharacters_KeepEmpty ==
    /\ Takes("CHARACTERS")
    /\ LET event_text == Head(pending).text
           t == AppendText(stack, output, event_text)
       IN  /\ stack' = t.stack
           /\ output' = t.output
           /\ opened' = Append(opened, TextItem(event_text))
    /\ UNCHANGED <<current_tag, current_attribute, pc, result, next_id,
                   closed_ids, drained_ids, consumed_ids>>

OnCharacters ==
    /\ Takes("CHARACTERS")
    /\ LET event_text == Head(pending).text
           t == AppendText(stack, output, event_text)
       IN  IF Len(event_text) > 0
           THEN /\ stack' = t.stack
                /\ output' = t.output
                /\ opened' = Append(opened, TextItem(event_text))
           ELSE UNCHANGED <<stack, output, opened>>
    /\ UNCHANGED <<current_tag, current_attribute, pc, result, next_id,
                   closed_ids, drained_ids, consumed_ids>>

OnStartTag ==
    /\ Takes("START_TAG")
    /\ IF current_tag # <<>>
       THEN /\ Fails("AssertionError", <<>>)
            /\ UNCHANGED <<current_tag, next_id>>
       ELSE /\ current_tag' = <<NewElement(next_id)>>
            /\ next_id' = next_id + 1
            /\ UNCHANGED <<pc, result>>
    /\ UNCHANGED <<stack, current_attribute, output>>
    /\ UNCHANGED history_vars

OnTagIsClosing ==
    /\ Takes("TAG_IS_CLOSING")
    /\ IF current_tag = <<>>
       THEN /\ Fails("AssertionError", <<>>)
            /\ UNCHANGED current_tag
       ELSE /\ current_tag' = <<[current_tag[1] EXCEPT !.is_closing = TRUE]>>
            /\ UNCHANGED <<pc, result>>
    /\ UNCHANGED <<stack, current_attribute, output, next_id>>
    /\ UNCHANGED history_vars

OnTagIsSelfClosing ==
    /\ Takes("TAG_IS_SELF_CLOSING")
    /\ IF current_tag = <<>>
       THEN /\ Fails("AssertionError", <<>>)
            /\ UNCHANGED current_tag
       ELSE /\ current_tag' = <<[current_tag[1] EXCEPT !.is_self_closing = TRUE]>>
            /\ UNCHANGED <<pc, result>>
    /\ UNCHANGED <<stack, current_attribute, output, next_id>>
    /\ UNCHANGED history_vars

OnName ==
    /\ Takes("NAME")
    /\ LET event_text == Head(pending).text
       IN  IF current_tag = <<>>
           THEN /\ Fails("AssertionError", <<>>)
                /\ UNCHANGED <<current_tag, current_attribute>>
           ELSE IF current_tag[1].tag_name = None
           THEN /\ current_tag' = <<[current_tag[1] EXCEPT !.tag_name = event_text]>>
                /\ UNCHANGED <<current_attribute, pc, result>>
           ELSE /\ current_tag' = <<FlushAttribute(current_tag[1], current_attribute)>>
                /\ current_attribute' = << <<event_text, None>> >>
                /\ UNCHANGED <<pc, result>>
    /\ UNCHANGED <<stack, output, next_id>>
    /\ UNCHANGED history_vars

OnAttributeValue ==
    /\ Takes("ATTRIBUTE_VALUE")
    /\ LET event_text == Head(pending).text
       IN  IF current_attribute = <<>>
           THEN /\ Fails("AssertionError", <<>>)
                /\ UNCHANGED current_attribute
           ELSE /\ current_attribute' = << <<current_attribute[1][1], event_text>> >>
                /\ UNCHANGED <<pc, result>>
    /\ UNCHANGED <<stack, current_tag, output, next_id>>
    /\ UNCHANGED history_vars

OnEndTag ==
    /\ Takes("END_TAG")
    /\ IF current_tag = <<>>
       THEN /\ Fails("AssertionError", <<>>)
            /\ UNCHANGED <<stack, current_tag, current_attribute, output>>
            /\ UNCHANGED history_vars
       ELSE LET tag == FlushAttribute(current_tag[1], current_attribute)
                branch == EndTagBranch(stack, tag)
                t == CASE branch = "close" -> CloseTag(stack, output)
                       [] branch = "leaf" -> AttachLeaf(stack, output, tag)
                       [] branch = "open" -> Tree(Append(stack, tag), output)
                       [] OTHER -> Tree(stack, output)
            IN  /\ current_attribute' = <<>>
                /\ stack' = t.stack
                /\ output' = t.output
                /\ closed_ids' = IF branch = "close"
                                 THEN closed_ids \cup {stack[Len(stack)].id}
                                 ELSE closed_ids
                /\ opened' = IF branch \in {"leaf", "open"}
                             THEN Append(opened, tag.id) ELSE opened
                /\ consumed_ids' = IF branch = "close"
                                   THEN consumed_ids \cup {tag.id}
                                   ELSE consumed_ids
                /\ UNCHANGED drained_ids
                /\ IF branch = "unexpected"
                   THEN /\ Fails("RuntimeError", <<"Unexpected closing ", tag.tag_name>>)
                        /\ current_tag' = <<tag>>
                   ELSE /\ current_tag' = <<>>
                        /\ UNCHANGED <<pc, result>>
    /\ UNCHANGED next_id

-----------------------------------------------------------------------------
(* parse_to_subtrees: after the for loop. *)

\* The generator is exhausted: the check for a partial final tag.
EndOfStream ==
    /\ pc = "loop" /\ pending = <<>> /\ scan_pc = "exhausted"
    /\ IF current_tag # <<>>
       THEN Fails("RuntimeError", <<"Partial final tag">>)
       ELSE /\ pc' = "drain"
            /\ UNCHANGED result
    /\ UNCHANGED <<data, cursor, state, current_item_chars, scan_pc, pending,
                   stack, current_tag, current_attribute, output, next_id,
                   events_consumed, events>>
    /\ UNCHANGED history_vars
    /\ UNCHANGED pair_vars
    /\ UNCHANGED api_vars

\* One iteration of `while len(stack) > 0`.
Drain ==
    /\ pc = "drain" /\ Len(stack) > 0
    /\ LET t == DrainOne(stack, output)
       IN  /\ stack' = t.stack
           /\ output' = t.output
    /\ drained_ids' = drained_ids \cup {stack[Len(stack)].id}
    /\ UNCHANGED <<data, cursor, state, current_item_chars, scan_pc, pending,
                   current_tag, current_attribute, pc, result, next_id,
                   events_consumed, closed_ids, opened, events, consumed_ids>>
    /\ UNCHANGED pair_vars
    /\ UNCHANGED api_vars

\* return output
Return ==
    /\ pc = "drain" /\ Len(stack) = 0
    /\ pc' = "returned"
    /\ result' = Returned(output)
    /\ UNCHANGED <<data, cursor, state, current_item_chars, scan_pc, pending,
                   stack, current_tag, current_attribute, output, next_id,
                   events_consumed, events>>
    /\ UNCHANGED history_vars
    /\ UNCHANGED pair_vars
    /\ UNCHANGED api_vars

Next ==
    \/ ScanChar
    \/ ScanEnd
    \/ OnCharacters
    \/ OnStartTag
    \/ OnTagIsClosing
    \/ OnTagIsSelfClosing
    \/ OnName
    \/ OnAttributeValue
    \/ OnEndTag
    \/ EndOfStream
    \/ Drain
    \/ Return

Spec == Init /\ [][Next]_vars

-----------------------------------------------------------------------------
(* What the claims speak of. *)

Finished == pc \in {"returned", "raised"}

\* Writing a forest in order: each Element by write_to without pretty-printing
\* (empty indent, add_indent and newline), each text item as it is.
RECURSIVE WriteForest(_)
WriteForest(forest) ==
    IF forest = <<>> THEN <<>>
    ELSE (IF Head(forest).kind = "element"
          THEN WriteTo(Head(forest), <<>>, <<>>, <<>>)
          ELSE Head(forest).text)
         \o WriteForest(Tail(forest))

\* Every Element of a list of items, at any depth.
RECURSIVE Elements(_)
Elements(items) ==
    IF items = <<>> THEN {}
    ELSE (IF Head(items).kind = "element"
          THEN {Head(items)} \cup Elements(Head(items).children)
          ELSE {})
         \cup Elements(Tail(items))

\* The depth-first, left-to-right walk of a list of items: each text item, and
\* each Element by its id followed by the walk of its children.
RECURSIVE Walk(_)
Walk(items) ==
    IF items = <<>> THEN <<>>
    ELSE (IF Head(items).kind = "element"
          THEN <<Head(items).id>> \o Walk(Head(items).children)
          ELSE <<Head(items)>>)
         \o Walk(Tail(items))

(***************************************************************************)
(* Well-formed fragments, recognised from the characters alone: text and   *)
(* balanced elements,                                                      *)
(*     <name attr*>  ...  </name>      and      <name attr*/>              *)
(* with attr a name, or name="..." or name='...'.  A name is made of       *)
(* characters that are neither whitespace nor one of < > / = " '.  As in   *)
(* XML, whitespace may also precede > and />, surround = and be repeated   *)
(* between attributes.  With strict, the only whitespace inside a tag,     *)
(* outside quoted values, is one space character right before each         *)
(* attribute name.                                                         *)
(***************************************************************************)
NameChar(c) == c \notin ({"<", ">", "/", "=", "\"", "'"} \cup WHITESPACE)

WfNext(q, c, strict) ==
    LET ws == IF strict THEN c = " " ELSE c \in WHITESPACE
        tail == \* what may follow a name or a value, besides whitespace
            IF c = ">" THEN "text" ELSE IF c = "/" THEN "slash" ELSE "bad"
    IN  CASE q = "text" -> IF c = "<" THEN "lt" ELSE "text"
          [] q = "lt" -> IF c = "/" THEN "etag" ELSE IF NameChar(c) THEN "sname" ELSE "bad"
          [] q = "etag" -> IF NameChar(c) THEN "ename" ELSE "bad"
          [] q = "ename" ->
                IF NameChar(c) THEN "ename"
                ELSE IF c = ">" THEN "text"
                ELSE IF ws /\ ~strict THEN "ews" ELSE "bad"
          [] q = "ews" ->
                IF c = ">" THEN "text" ELSE IF ws THEN "ews" ELSE "bad"
          [] q = "sname" ->
                IF NameChar(c) THEN "sname" ELSE IF ws THEN "sws" ELSE tail
          [] q = "sws" ->
                IF NameChar(c) THEN "aname"
                ELSE IF strict THEN "bad"
                ELSE IF ws THEN "sws" ELSE tail
          [] q = "aname" ->
                IF NameChar(c) THEN "aname"
                ELSE IF c = "=" THEN "eq"
                ELSE IF ws THEN "anws" ELSE tail
          [] q = "anws" ->
                IF NameChar(c) THEN "aname"
                ELSE IF strict THEN "bad"
                ELSE IF c = "=" THEN "eq"
                ELSE IF ws THEN "anws" ELSE tail
          [] q = "eq" ->
                IF c = "\"" THEN "dq"
                ELSE IF c = "'" THEN "sq"
                ELSE IF ws /\ ~strict THEN "eq" ELSE "bad"
          [] q = "dq" -> IF c = "\"" THEN "aval" ELSE "dq"
          [] q = "sq" -> IF c = "'" THEN "aval" ELSE "sq"
          [] q = "aval" -> IF ws THEN "sws" ELSE tail
          [] q = "slash" -> IF c = ">" THEN "text" ELSE "bad"
          [] OTHER -> "bad"

\* The tags of s from position i on, read in state q with the tag name so far:
\* [ok, tags], each tag [kind: "open" | "close" | "empty", name].
RECURSIVE WfRun(_, _, _, _, _, _)
WfRun(s, i, q, name, tags, strict) ==
    IF q = "bad" THEN [ok |-> FALSE, tags |-> tags]
    ELSE IF i > Len(s) THEN [ok |-> (q = "text"), tags |-> tags]
    ELSE LET c == s[i]
             q2 == WfNext(q, c, strict)
             name2 == IF q2 \in {"sname", "ename"} THEN Append(name, c)
                      ELSE IF q2 = "text" THEN <<>> ELSE name
             kind == IF q \in {"ename", "ews"} THEN "close"
                     ELSE IF q = "slash" THEN "empty" ELSE "open"
             tags2 == IF q # "text" /\ q2 = "text"
                      THEN Append(tags, [kind |-> kind, name |-> name])
                      ELSE tags
         IN  WfRun(s, i + 1, q2, name2, tags2, strict)

\* Every closing tag closes the innermost open element and bears its name, and
\* nothing is left open.
RECURSIVE Balanced(_, _)
Balanced(tags, open) ==
    IF tags = <<>> THEN open = <<>>
    ELSE LET t == Head(tags)
         IN  CASE t.kind = "open" -> Balanced(Tail(tags), Append(open, t.name))
               [] t.kind = "empty" -> Balanced(Tail(tags), open)
               [] OTHER ->
                    /\ open # <<>>
                    /\ open[Len(open)] = t.name
                    /\ Balanced(Tail(tags), SubSeq(open, 1, Len(open) - 1))

WellFormed(s) ==
    LET r == WfRun(s, 1, "text", <<>>, <<>>, FALSE)
    IN  r.ok /\ Balanced(r.tags, <<>>)

WellFormedStrict(s) ==
    LET r == WfRun(s, 1, "text", <<>>, <<>>, TRUE)
    IN  r.ok /\ Balanced(r.tags, <<>>)

-----------------------------------------------------------------------------
(* C1 *)

\* C1, as claimed: for every well-formed fragment, parse_to_subtrees returns
\* and writing the forest back without pretty-printing gives the fragment.
C1_RoundTripWellFormed ==
    (Finished /\ WellFormed(data)) =>
        (pc = "returned" /\ WriteForest(result.value) = data)

\* C1, amended: the same for every well-formed fragment whose tags hold no
\* whitespace outside quoted values other than one space character before
\* each attribute name.
C1_RoundTripCanonical ==
    (Finished /\ WellFormedStrict(data)) =>
        (pc = "returned" /\ WriteForest(result.value) = data)

\* <a b="a>b">b</a> has been parsed: one closed element with an attribute and
\* a text child.
C1_Witness ==
    /\ pc = "returned"
    /\ WellFormedStrict(data)
    /\ data = <<"<","a"," ","b","=","\"","a",">","b","\"",">","b","<","/","a",">">>
    /\ Len(result.value) = 1
    /\ result.value[1].attributes = << <<<<"b">>, <<"\"","a",">","b","\"">>>> >>
    /\ result.value[1].children = <<TextItem(<<"b">>)>>

-----------------------------------------------------------------------------
(* C2 *)

\* C2, as claimed: whatever state the input ends in, parse_to_stream yields
\* its events to the end and raises nothing.
C2_ScannerNeverRaises == scan_pc # "raised"

-----------------------------------------------------------------------------
(* C3 *)

\* One of the assembler's fatal conditions has fired.
AssemblerFatal == pc = "raised" /\ scan_pc # "raised"

\* C3, as claimed: on a fatal condition of the assembler the caller receives
\* the forest built so far and an error that names the condition and the
\* index of the token it fired at.
C3_FatalKeepsPartialForest ==
    AssemblerFatal =>
        /\ {"forest", "condition", "token_index"} \subseteq DOMAIN result
        /\ result.forest = output
        /\ result.token_index = events_consumed

-----------------------------------------------------------------------------
(* C4 *)

\* The for loop is about to take the END_TAG of a closing tag while the stack
\* is non-empty.
ClosingEndTag ==
    /\ pc = "loop" /\ pending # <<>> /\ Head(pending).type = "END_TAG"
    /\ current_tag # <<>> /\ current_tag[1].is_closing
    /\ Len(stack) > 0

\* C4: that END_TAG pops exactly the top of the stack, whatever the two names
\* are, marks it closed, appends it to the children of the new top (to the
\* forest when the stack is now empty), leaves the rest of the stack as it
\* was, and the loop goes on.
C4_ClosePopsTopByPosition ==
    [][ClosingEndTag =>
        LET n == Len(stack)
            top == [stack[n] EXCEPT !.is_closed = TRUE]
        IN  /\ pc' = "loop"
            /\ Len(stack') = n - 1
            /\ \A i \in 1..(n - 2) : stack'[i] = stack[i]
            /\ IF n > 1
               THEN /\ stack'[n - 1] = [stack[n - 1] EXCEPT !.children = Append(@, top)]
                    /\ output' = output
               ELSE output' = Append(output, top)]_vars

\* <a><b></a> : </a> has closed b as a child of a, and a is still open.
C4_Witness ==
    /\ data = <<"<","a",">","<","b",">","<","/","a",">">>
    /\ cursor = Len(data) /\ pending = <<>> /\ pc = "loop"
    /\ Len(stack) = 1
    /\ stack[1].tag_name = <<"a">> /\ ~stack[1].is_closed
    /\ Len(stack[1].children) = 1
    /\ stack[1].children[1].tag_name = <<"b">>
    /\ stack[1].children[1].is_closed

-----------------------------------------------------------------------------
(* C5 *)

\* C5: in the returned forest an Element is closed exactly if a closing tag
\* popped it, and every element the final drain popped is in the forest and
\* is not closed.
C5_ClosedIffPoppedByClosingTag ==
    pc = "returned" =>
        /\ \A e \in Elements(result.value) : e.is_closed <=> e.id \in closed_ids
        /\ \A id \in drained_ids :
              \E e \in Elements(result.value) : e.id = id /\ ~e.is_closed

\* A forest with an element closed by a closing tag and one left open.
C5_Witness ==
    /\ pc = "returned"
    /\ closed_ids # {}
    /\ drained_ids # {}
    /\ \E e \in Elements(result.value) : e.is_closed
    /\ \E e \in Elements(result.value) : ~e.is_closed /\ ~e.is_self_closing

-----------------------------------------------------------------------------
(* C6 *)

Min(S) == CHOOSE x \in S : \A y \in S : x <= y

\* The elements with the given ids are nested in one another from e inwards,
\* in the order they were created, each the last child of the one before.
RECURSIVE Chain(_, _)
Chain(e, ids) ==
    /\ e.kind = "element"
    /\ e.id = Min(ids)
    /\ \/ ids = {e.id}
       \/ /\ e.children # <<>>
          /\ Chain(e.children[Len(e.children)], ids \ {e.id})

\* C6: when parse_to_subtrees returns, the depth-first left-to-right walk of
\* the forest meets the text runs and the elements in the order of the input;
\* and the elements left open at the end of the input are nested in one
\* another under a single root, the last item of the forest.
C6_DocumentOrder ==
    pc = "returned" =>
        /\ Walk(result.value) = opened
        /\ drained_ids # {} =>
              Chain(result.value[Len(result.value)], drained_ids)

\* Three levels of unterminated nesting, with text inside the innermost.
C6_Witness ==
    /\ pc = "returned"
    /\ Cardinality(drained_ids) = 3
    /\ closed_ids = {}
    /\ Len(result.value) = 1
    /\ Len(opened) = 4

-----------------------------------------------------------------------------
(* C7 *)

\* C7: a self-closing Element is never on the stack, and wherever it is in the
\* tree it has no children and is not closed.
C7_SelfClosingIsLeaf ==
    /\ \A i \in 1..Len(stack) : ~stack[i].is_self_closing
    /\ \A e \in Elements(stack) \cup Elements(output) :
          e.is_self_closing => (e.children = <<>> /\ ~e.is_closed)

\* <a>b<b/>b : a has the children "b", the leaf b, "b".
C7_Witness ==
    /\ pc = "returned"
    /\ data = <<"<","a",">","b","<","b","/",">","b">>
    /\ Len(result.value) = 1
    /\ Len(result.value[1].children) = 3
    /\ result.value[1].children[1] = TextItem(<<"b">>)
    /\ result.value[1].children[2].kind = "element"
    /\ result.value[1].children[2].is_self_closing
    /\ result.value[1].children[2].children = <<>>
    /\ result.value[1].children[3] = TextItem(<<"b">>)

-----------------------------------------------------------------------------
(* C8 *)

\* C8, as claimed: no Element of a returned forest is a closing tag.
C8_NoClosingTagInForest ==
    pc = "returned" => \A e \in Elements(result.value) : ~e.is_closing

-----------------------------------------------------------------------------
(* C9 *)

\* The input has ended inside a tag: a START_TAG was yielded and no END_TAG
\* after it.
EndsInsideTag == cursor = Len(data) /\ state # "TEXT"

\* C9, as claimed: when the input ends inside a tag, the parse ends in the
\* error for the partial final tag.
C9_TruncatedTagIsPartialFinalTag ==
    (Finished /\ EndsInsideTag) =>
        /\ pc = "raised"
        /\ result.exception = "RuntimeError"
        /\ result.message = <<"Partial final tag">>

-----------------------------------------------------------------------------
(* C10 *)

\* The for loop is about to take the END_TAG of a closing tag that is not
\* self-closing while the stack is empty.
UnmatchedClosingEndTag ==
    /\ pc = "loop" /\ pending # <<>> /\ Head(pending).type = "END_TAG"
    /\ current_tag # <<>>
    /\ current_tag[1].is_closing /\ ~current_tag[1].is_self_closing
    /\ Len(stack) = 0

\* C10: that END_TAG raises the error for the unexpected closing tag, appends
\* nothing to the forest, and once the parse has raised no event is taken.
C10_UnmatchedClosingTagIsFatal ==
    [][/\ UnmatchedClosingEndTag =>
            /\ pc' = "raised"
            /\ result'.kind = "raise"
            /\ result'.message[1] = "Unexpected closing "
            /\ output' = output
            /\ stack' = stack
       /\ pc = "raised" =>
            /\ events_consumed' = events_consumed
            /\ output' = output]_vars

\* The closing tag came after a top-level text run and before more input.
C10_Witness ==
    /\ pc = "raised"
    /\ result.message = <<"Unexpected closing ", <<"a">>>>
    /\ output = <<TextItem(<<"b">>)>>
    /\ cursor < Len(data)

-----------------------------------------------------------------------------
(* C11 *)

NoTagOpens == \A i \in 1..Len(data) : data[i] # "<"

\* C11: a fragment without "<" parses to a forest of exactly one text item, the
\* whole fragment, when it is not empty, and to the empty forest when it is.
C11_TextOnlyIsOneTextItem ==
    (Finished /\ NoTagOpens) =>
        /\ pc = "returned"
        /\ result.value = IF data = <<>> THEN <<>> ELSE <<TextItem(data)>>

\* A returned parse of a fragment of tag punctuation other than "<".
C11_Witness ==
    /\ pc = "returned"
    /\ data = <<">", "/", "=", " ">>
    /\ result.value = <<TextItem(data)>>

-----------------------------------------------------------------------------
(* C12 *)

\* The j-th smallest member of a set of numbers.
Nth(S, j) == CHOOSE x \in S : Cardinality({y \in S : y < x}) = j - 1

\* The events yielded for the k-th tag of the fragment: those after its
\* START_TAG and before the next END_TAG, or the end of the events.
TagTokens(k) ==
    LET starts == {i \in 1..Len(events) : events[i].type = "START_TAG"}
        from == Nth(starts, k)
        ends == {i \in from..Len(events) : events[i].type = "END_TAG"}
        to == IF ends = {} THEN Len(events) + 1 ELSE Min(ends)
    IN  SubSeq(events, from + 1, to - 1)

IsNameOrValue(ev) == ev.type \in {"NAME", "ATTRIBUTE_VALUE"}

\* The attributes of Element e, which was made for the (e.id + 1)-th START_TAG,
\* read off the NAME and ATTRIBUTE_VALUE events of its tag: the first NAME is
\* the tag's name; every later NAME is one attribute, in order, with the value
\* None when the next NAME or the end of the tag follows at once, and else the
\* text of the ATTRIBUTE_VALUE before it.
AttributesAsDeclared(e) ==
    LET toks == SelectSeq(TagTokens(e.id + 1), IsNameOrValue)
        names == {i \in 2..Len(toks) : toks[i].type = "NAME"}
        n == Cardinality(names)
        last(j) == IF j = n THEN Len(toks) ELSE Nth(names, j + 1) - 1
    IN  /\ Len(e.attributes) = n
        /\ \A j \in 1..n :
              /\ e.attributes[j][1] = toks[Nth(names, j)].text
              /\ e.attributes[j][2] = IF last(j) = Nth(names, j) THEN None
                                      ELSE toks[last(j)].text

\* C12: every Element on the stack, in a list of children or in the forest
\* holds one (name, value) pair for each attribute NAME event of its tag, in
\* the order of the events, the same name as often as it was given, and the
\* value None for a name that no ATTRIBUTE_VALUE follows.
C12_AttributesAsDeclared ==
    \A e \in Elements(stack) \cup Elements(output) : AttributesAsDeclared(e)

\* `<a b='a' b/>` has returned: the name b twice, once with a value, once with None.
C12_Witness ==
    /\ pc = "returned"
    /\ \E e \in Elements(result.value) :
          e.attributes = << <<<<"b">>, <<"'", "a", "'">>>>, <<<<"b">>, None>> >>

-----------------------------------------------------------------------------
(* C13 *)

InQuotedValue == state \in {"IN_DOUBLE_QUOTED_VALUE", "IN_SINGLE_QUOTED_VALUE"}

MatchingQuote == IF state = "IN_DOUBLE_QUOTED_VALUE" THEN "\"" ELSE "'"

\* The accumulator holds the characters of the fragment that end at the cursor.
AccumulatorIsSourceSubstring ==
    /\ Len(current_item_chars) <= cursor
    /\ current_item_chars = SubSeq(data, cursor - Len(current_item_chars) + 1, cursor)

\* C13: a character read inside a quoted attribute value is accumulated and
\* yields no event, whatever it is; only the matching quote leaves the quoted
\* state, for IN_VALUE, so no ">" inside the quotes ends the tag; and the value
\* accumulated, and yielded in the ATTRIBUTE_VALUE event when the character
\* after the value is read, is the substring of the fragment as it stands,
\* quotes included.
C13_QuotedValueIsLiteral ==
    [][/\ (InQuotedValue /\ cursor' = cursor + 1) =>
             /\ current_item_chars' = Append(current_item_chars, data[cursor + 1])
             /\ pending' = <<>>
             /\ events' = events
             /\ state' = IF data[cursor + 1] = MatchingQuote THEN "IN_VALUE" ELSE state
             /\ AccumulatorIsSourceSubstring'
       /\ (cursor' = cursor + 1 /\ pending' # <<>>
              /\ pending'[1].type = "ATTRIBUTE_VALUE") =>
             /\ AccumulatorIsSourceSubstring
             /\ pending'[1].text = current_item_chars]_vars

\* The scanner has read the ">" between the quotes of `<a b="a>b">b</a>` and
\* is still in the quoted value, with no END_TAG yielded.
C13_Witness ==
    /\ state = "IN_DOUBLE_QUOTED_VALUE"
    /\ current_item_chars = <<"\"", "a", ">">>
    /\ \A i \in 1..Len(events) : events[i].type # "END_TAG"

-----------------------------------------------------------------------------
(* C14 *)

\* write_to as a caller calls it on an Element: indent left at its default,
\* with and without pretty-printing.
AddIndents == {<<>>, <<" ">>}
Newlines == {<<>>, <<"\n">>}

ClosingTag(e) == <<"<", "/">> \o e.tag_name \o <<">">>

-----------------------------------------------------------------------------
(* C15 *)

IsNamed(e) == e.tag_name # None /\ e.tag_name # <<>>

\* Every END_TAG among the events has, since the START_TAG before it, a NAME
\* whose text is not empty.
EndTagFollowsName ==
    \A k \in 1..Len(events) :
        events[k].type = "END_TAG" =>
            \E j \in 1..(k - 1) :
                /\ events[j].type = "NAME" /\ events[j].text # <<>>
                /\ \E i \in 1..(j - 1) :
                      /\ events[i].type = "START_TAG"
                      /\ \A m \in i..k - 1 : events[m].type # "END_TAG"

\* C15: every Element on the stack, in a list of children or in the forest
\* has a tag_name that is neither None nor empty, because the scanner yields
\* no END_TAG for a tag before it has yielded a NAME with text for it.
C15_ElementsAreNamed ==
    /\ \A e \in Elements(stack) \cup Elements(output) : IsNamed(e)
    /\ EndTagFollowsName

\* `<>>`: the ">" after "<" starts a name instead of ending the tag, and the
\* Element on the stack is named ">".
C15_Witness ==
    /\ data = <<"<", ">", ">">>
    /\ Len(stack) = 1 /\ stack[1].tag_name = <<">">>

-----------------------------------------------------------------------------
(* C17 *)

\* The transition summary of the scanner, row by row as the table gives it:
\* the token flushed from the accumulator, the token emitted after it, whether
\* the character is accumulated, and the next state ("same" for a row that
\* names none).
Row(flush, emit, accumulate, next) ==
    [flush |-> flush, emit |-> emit, accumulate |-> accumulate, next |-> next]

\* The trigger of the table that a character falls under in a state: its own
\* row where the state has one, "other" where it has not.
Trigger(st, c) ==
    LET cls == IF c \in WHITESPACE THEN "whitespace" ELSE c
        own == CASE st = "TEXT" -> {"<"}
                 [] st = "TAG_START" -> {"/", "whitespace"}
                 [] st \in {"NAME", "IN_TAG"} -> {">", "/", "=", "whitespace"}
                 [] st \in {"VALUE_START", "VALUE"} -> {"\"", "'", "whitespace", "/", ">"}
                 [] st = "DOUBLE_QUOTED_VALUE" -> {"\""}
                 [] st = "SINGLE_QUOTED_VALUE" -> {"'"}
    IN  IF cls \in own THEN cls ELSE "other"

QuotedState(q) == IF q = "\"" THEN "DOUBLE_QUOTED_VALUE" ELSE "SINGLE_QUOTED_VALUE"

TableRow(st, tr) ==
    CASE st = "TEXT" ->
           (CASE tr = "<" -> Row("Characters", "StartTag", FALSE, "TAG_START")
              [] tr = "other" -> Row("none", "none", TRUE, "same"))
      [] st = "TAG_START" ->
           (CASE tr = "/" -> Row("none", "TagIsClosing", FALSE, "same")
              [] tr = "whitespace" -> Row("none", "none", FALSE, "same")
              [] tr = "other" -> Row("none", "none", TRUE, "NAME"))
      [] st = "NAME" ->
           (CASE tr = ">" -> Row("Name", "EndTag", FALSE, "TEXT")
              [] tr = "/" -> Row("Name", "TagIsSelfClosing", FALSE, "IN_TAG")
              [] tr = "=" -> Row("Name", "none", FALSE, "VALUE_START")
              [] tr = "whitespace" -> Row("Name", "none", FALSE, "IN_TAG")
              \* the table has no row for other characters in NAME: the name goes on
              [] tr = "other" -> Row("none", "none", TRUE, "same"))
      [] st = "IN_TAG" ->
           (CASE tr = ">" -> Row("none", "EndTag", FALSE, "TEXT")
              [] tr = "/" -> Row("none", "TagIsSelfClosing", FALSE, "same")
              [] tr = "=" -> Row("none", "none", FALSE, "VALUE_START")
              [] tr = "whitespace" -> Row("none", "none", FALSE, "same")
              [] tr = "other" -> Row("none", "none", TRUE, "NAME"))
      [] st = "VALUE_START" ->
           (CASE tr \in {"\"", "'"} -> Row("none", "none", TRUE, QuotedState(tr))
              [] tr = "whitespace" -> Row("none", "none", FALSE, "same")
              [] tr = "/" -> Row("AttributeValue", "TagIsSelfClosing", FALSE, "IN_TAG")
              [] tr = ">" -> Row("AttributeValue", "EndTag", FALSE, "TEXT")
              [] tr = "other" -> Row("none", "none", TRUE, "VALUE"))
      [] st = "VALUE" ->
           (CASE tr \in {"\"", "'"} -> Row("none", "none", TRUE, QuotedState(tr))
              [] tr = "whitespace" -> Row("AttributeValue", "none", FALSE, "IN_TAG")
              [] tr = "/" -> Row("AttributeValue", "TagIsSelfClosing", FALSE, "IN_TAG")
              [] tr = ">" -> Row("AttributeValue", "EndTag", FALSE, "TEXT")
              [] tr = "other" -> Row("none", "none", TRUE, "same"))
      [] st \in {"DOUBLE_QUOTED_VALUE", "SINGLE_QUOTED_VALUE"} ->
           (CASE tr \in {"\"", "'"} -> Row("none", "none", TRUE, "VALUE")
              [] tr = "other" -> Row("none", "none", TRUE, "same"))

\* The table's names for the states and tokens of parse_to_stream.
TableState(s) ==
    CASE s = "TEXT" -> "TEXT"
      [] s = "IN_TAG_START" -> "TAG_START"
      [] s = "IN_NAME" -> "NAME"
      [] s = "IN_TAG" -> "IN_TAG"
      [] s = "IN_VALUE_START" -> "VALUE_START"
      [] s = "IN_VALUE" -> "VALUE"
      [] s = "IN_DOUBLE_QUOTED_VALUE" -> "DOUBLE_QUOTED_VALUE"
      [] s = "IN_SINGLE_QUOTED_VALUE" -> "SINGLE_QUOTED_VALUE"

TableToken(type) ==
    CASE type = "CHARACTERS" -> "Characters"
      [] type = "START_TAG" -> "StartTag"
      [] type = "TAG_IS_CLOSING" -> "TagIsClosing"
      [] type = "TAG_IS_SELF_CLOSING" -> "TagIsSelfClosing"
      [] type = "NAME" -> "Name"
      [] type = "ATTRIBUTE_VALUE" -> "AttributeValue"
      [] type = "END_TAG" -> "EndTag"

\* What a row asks of one step on character c with the accumulator chars:
\* the tokens with their text, the accumulator after the step, the next state.
RowStep(st, chars, c) ==
    LET row == TableRow(st, Trigger(st, c))
    IN  [tokens |-> (IF row.flush # "none" THEN << <<row.flush, chars>> >> ELSE <<>>)
                    \o (IF row.emit # "none" THEN << <<row.emit, None>> >> ELSE <<>>),
         chars |-> IF row.flush # "none" THEN <<>>
                   ELSE IF row.accumulate THEN Append(chars, c) ELSE chars,
         state |-> IF row.next = "same" THEN st ELSE row.next]

\* C17: every character the scanner reads is handled as the row of the
\* transition table for its state and the character's class asks: the same
\* tokens are yielded, the accumulator is updated the same way and the same
\* state follows.
C17_ScannerFollowsTable ==
    [][cursor' = cursor + 1 =>
          LET r == RowStep(TableState(state), current_item_chars, data[cursor + 1])
          IN  /\ TableState(state') = r.state
              /\ current_item_chars' = r.chars
              /\ [i \in 1..Len(pending') |->
                     <<TableToken(pending'[i].type), pending'[i].text>>] = r.tokens]_vars

\* `<a b=>`: the scanner has read ">" in IN_VALUE_START, flushed an empty
\* ATTRIBUTE_VALUE, yielded END_TAG and gone back to TEXT.
C17_Witness ==
    /\ data = <<"<", "a", " ", "b", "=", ">">>
    /\ cursor = 6 /\ state = "TEXT"
    /\ pending = <<Event("ATTRIBUTE_VALUE", <<>>), Event("END_TAG", None)>>

-----------------------------------------------------------------------------
(* C18 *)

\* C18: no ATTRIBUTE_VALUE event is delivered to the loop of parse_to_subtrees
\* while current_attribute is None, so its `assert current_attribute is not
\* None` never fails.
C18_ValueOnlyWithPendingAttribute ==
    (pc = "loop" /\ pending # <<>> /\ Head(pending).type = "ATTRIBUTE_VALUE")
        => current_attribute # <<>>

-----------------------------------------------------------------------------
(* C19 *)

TagLevel == {"TAG_IS_CLOSING", "TAG_IS_SELF_CLOSING", "NAME", "ATTRIBUTE_VALUE"}

\* Reading the events in order, in_tag telling whether a START_TAG has come
\* with no END_TAG after it: START_TAG only outside a tag, END_TAG and the
\* tag-level events only inside one.
RECURSIVE TagsAlternate(_, _)
TagsAlternate(evs, in_tag) ==
    IF evs = <<>> THEN TRUE
    ELSE LET type == Head(evs).type
         IN  CASE type = "START_TAG" -> ~in_tag /\ TagsAlternate(Tail(evs), TRUE)
               [] type = "END_TAG" -> in_tag /\ TagsAlternate(Tail(evs), FALSE)
               [] type \in TagLevel -> in_tag /\ TagsAlternate(Tail(evs), in_tag)
               [] OTHER -> TagsAlternate(Tail(evs), in_tag)

\* C19: in the events the scanner yields START_TAG and END_TAG alternate,
\* START_TAG first, and every TAG_IS_CLOSING, TAG_IS_SELF_CLOSING, NAME and
\* ATTRIBUTE_VALUE lies between a START_TAG and the next END_TAG or the end
\* of the input; so the loop of parse_to_subtrees is never handed a START_TAG
\* while current_tag is set, nor an event of a tag while it is None.
C19_TagEventsAlternate ==
    /\ TagsAlternate(events, FALSE)
    /\ (pc = "loop" /\ pending # <<>>) =>
          /\ Head(pending).type = "START_TAG" => current_tag = <<>>
          /\ Head(pending).type \in TagLevel \cup {"END_TAG"} => current_tag # <<>>

\* `<a></a>` has returned: two START_TAGs, each followed by its END_TAG, the
\* second with a TAG_IS_CLOSING and a NAME between them.
C19_Witness ==
    /\ data = <<"<", "a", ">", "<", "/", "a", ">">>
    /\ pc = "returned"
    /\ [i \in 1..Len(events) |-> events[i].type]
          = <<"CHARACTERS", "START_TAG", "NAME", "END_TAG",
              "CHARACTERS", "START_TAG", "TAG_IS_CLOSING", "NAME", "END_TAG",
              "CHARACTERS">>

-----------------------------------------------------------------------------
(* C20 *)

\* The event that flushes the accumulator of a state at the end of the input.
FinalTokenOf(s) ==
    CASE s = "TEXT" -> "CHARACTERS"
      [] s = "IN_NAME" -> "NAME"
      [] s \in {"IN_VALUE_START", "IN_VALUE"} -> "ATTRIBUTE_VALUE"
      [] OTHER -> "none"

Count(type) == Cardinality({i \in 1..Len(events) : events[i].type = type})

\* C20: when the scanner is through with the input it has yielded one final
\* event, CHARACTERS, NAME or ATTRIBUTE_VALUE, as its last, and it has yielded
\* no END_TAG but for a ">" it read: none is made up for a tag cut short.
C20_OneFinalTokenNoSyntheticEndTag ==
    /\ scan_pc # "running" =>
          /\ scan_pc = "exhausted"
          /\ events # <<>>
          /\ events[Len(events)].type \in {"CHARACTERS", "NAME", "ATTRIBUTE_VALUE"}
          /\ FinalTokenOf(state) \in {"none", events[Len(events)].type}
    /\ Count("END_TAG") <= Cardinality({i \in 1..cursor : data[i] = ">"})

-----------------------------------------------------------------------------
(* C16 *)
(* Two calls of parse_to_subtrees whose steps are interleaved.  What a call  *)
(* works on are the locals of its own frame and of the frame of its          *)
(* generator, so a call is its frame, and a step of a call is a function of  *)
(* that frame: the actions above, written as one.                            *)

\* The frame after parse_to_subtrees(d) has set up its locals and made the generator.
InitFrame(d) ==
    [data |-> d, cursor |-> 0, state |-> "TEXT", current_item_chars |-> <<>>,
     scan_pc |-> "running", pending |-> <<>>, stack |-> <<>>, current_tag |-> <<>>,
     current_attribute |-> <<>>, output |-> <<>>, pc |-> "loop",
     result |-> [kind |-> "none"], next_id |-> 0]

Failed(f, exception, message) ==
    [f EXCEPT !.pc = "raised", !.result = Raised(exception, message)]

\* The generator is resumed: one iteration of its loop, or `yield finish()`.
Resume(f) ==
    IF f.cursor < Len(f.data)
    THEN LET r == ScanStep(f.state, f.current_item_chars, f.data[f.cursor + 1])
         IN  [f EXCEPT !.state = r.state, !.current_item_chars = r.chars,
                       !.pending = r.yields, !.cursor = @ + 1]
    ELSE IF CanFinish(f.state)
    THEN [f EXCEPT !.pending = <<Finish(f.state, f.current_item_chars)>>,
                   !.current_item_chars = <<>>, !.scan_pc = "exhausted"]
    ELSE [Failed(f, "RuntimeError", <<"Cannot finish ", f.state>>)
             EXCEPT !.scan_pc = "raised"]

\* The body of `for event_type, event_text in stream` on the next event.
Body(f) ==
    LET type == Head(f.pending).type
        event_text == Head(f.pending).text
        g == [f EXCEPT !.pending = Tail(@)]
    IN  CASE type = "CHARACTERS" ->
               IF Len(event_text) > 0
               THEN LET t == AppendText(g.stack, g.output, event_text)
                    IN  [g EXCEPT !.stack = t.stack, !.output = t.output]
               ELSE g
          [] type = "START_TAG" ->
               IF g.current_tag # <<>> THEN Failed(g, "AssertionError", <<>>)
               ELSE [g EXCEPT !.current_tag = <<NewElement(g.next_id)>>,
                              !.next_id = @ + 1]
          [] type = "TAG_IS_CLOSING" ->
               IF g.current_tag = <<>> THEN Failed(g, "AssertionError", <<>>)
               ELSE [g EXCEPT !.current_tag[1].is_closing = TRUE]
          [] type = "TAG_IS_SELF_CLOSING" ->
               IF g.current_tag = <<>> THEN Failed(g, "AssertionError", <<>>)
               ELSE [g EXCEPT !.current_tag[1].is_self_closing = TRUE]
          [] type = "NAME" ->
               IF g.current_tag = <<>> THEN Failed(g, "AssertionError", <<>>)
               ELSE IF g.current_tag[1].tag_name = None
               THEN [g EXCEPT !.current_tag[1].tag_name = event_text]
               ELSE [g EXCEPT
                       !.current_tag = <<FlushAttribute(g.current_tag[1], g.current_attribute)>>,
                       !.current_attribute = << <<event_text, None>> >>]
          [] type = "ATTRIBUTE_VALUE" ->
               IF g.current_attribute = <<>> THEN Failed(g, "AssertionError", <<>>)
               ELSE [g EXCEPT !.current_attribute[1][2] = event_text]
          [] type = "END_TAG" ->
               IF g.current_tag = <<>> THEN Failed(g, "AssertionError", <<>>)
               ELSE LET tag == FlushAttribute(g.current_tag[1], g.current_attribute)
                        branch == EndTagBranch(g.stack, tag)
                    IN  CASE branch = "close" ->
                               LET t == CloseTag(g.stack, g.output)
                               IN  [g EXCEPT !.stack = t.stack, !.output = t.output,
                                             !.current_tag = <<>>, !.current_attribute = <<>>]
                          [] branch = "leaf" ->
                               LET t == AttachLeaf(g.stack, g.output, tag)
                               IN  [g EXCEPT !.stack = t.stack, !.output = t.output,
                                             !.current_tag = <<>>, !.current_attribute = <<>>]
                          [] branch = "open" ->
                               [g EXCEPT !.stack = Append(@, tag),
                                         !.current_tag = <<>>, !.current_attribute = <<>>]
                          [] OTHER ->
                               [Failed(g, "RuntimeError", <<"Unexpected closing ", tag.tag_name>>)
                                   EXCEPT !.current_tag = <<tag>>, !.current_attribute = <<>>]

\* After the for loop: the check for a partial final tag, the draining of the
\* stack, the return.
AfterLoop(f) ==
    IF f.pc = "loop"
    THEN (IF f.current_tag # <<>> THEN Failed(f, "RuntimeError", <<"Partial final tag">>)
          ELSE [f EXCEPT !.pc = "drain"])
    ELSE IF Len(f.stack) > 0
    THEN LET t == DrainOne(f.stack, f.output)
         IN  [f EXCEPT !.stack = t.stack, !.output = t.output]
    ELSE [f EXCEPT !.pc = "returned", !.result = Returned(f.output)]

FrameFinished(f) == f.pc \in {"returned", "raised"}

\* The next step of a call that has not finished.
FrameStep(f) ==
    IF f.pc = "loop" /\ f.pending # <<>> THEN Body(f)
    ELSE IF f.pc = "loop" /\ f.scan_pc = "running" THEN Resume(f)
    ELSE AfterLoop(f)

\* The frame of the call of Spec.
Frame ==
    [data |-> data, cursor |-> cursor, state |-> state,
     current_item_chars |-> current_item_chars, scan_pc |-> scan_pc,
     pending |-> pending, stack |-> stack, current_tag |-> current_tag,
     current_attribute |-> current_attribute, output |-> output, pc |-> pc,
     result |-> result, next_id |-> next_id]

\* FrameStep is the actions of Spec: every step of Spec is the FrameStep of its frame.
FrameStepIsNext == [][Frame' = FrameStep(Frame)]_vars

\* The fragments given to the two calls.
PairInputs ==
    { <<>>,
      <<"<","a",">","b","<","/","a",">">>,
      <<"<","a",">","<","b",">","<","/","a",">">>,
      <<"<","a"," ","b","=","'","a","'"," ","b","/",">">>,
      <<"b","<","/","a",">">>,
      <<"<","a"," ","b","=">> }

Calls == 1..2

\* PairStep, had the accumulator of the scanner been one list for all calls
\* instead of a local of each generator: the other call sees what this one wrote.
PairStep_SharedAccumulator(cs, i) ==
    LET f == FrameStep(cs[i])
    IN  [j \in Calls |-> IF j = i THEN f
                         ELSE [cs[j] EXCEPT !.current_item_chars = f.current_item_chars]]

\* A step of call i touches the frame of call i and nothing else: state,
\* current_item_chars and cursor are locals of the generator, and the stack,
\* the scratch slots and the output are locals of parse_to_subtrees.
PairStep(cs, i) == [cs EXCEPT ![i] = FrameStep(cs[i])]

InitPair ==
    /\ calls \in [Calls -> {InitFrame(d) : d \in PairInputs}]
    /\ taken = [i \in Calls |-> 0]
    /\ data = <<>>
    /\ cursor = 0
    /\ state = "TEXT"
    /\ current_item_chars = <<>>
    /\ scan_pc = "running"
    /\ pending = <<>>
    /\ stack = <<>>
    /\ current_tag = <<>>
    /\ current_attribute = <<>>
    /\ output = <<>>
    /\ pc = "loop"
    /\ result = [kind |-> "none"]
    /\ next_id = 0
    /\ events_consumed = 0
    /\ closed_ids = {}
    /\ drained_ids = {}
    /\ opened = <<>>
    /\ events = <<>>
    /\ consumed_ids = {}
    /\ files = <<>>
    /\ token_period = 0
    /\ token_limit = 0
    /\ tokens = 0
    /\ current_to = 0
    /\ clock = 0
    /\ requests = <<>>
    /\ api_log = <<>>

\* Call i, not finished, takes its next step.
StepCall(i) ==
    /\ ~FrameFinished(calls[i])
    /\ calls' = PairStep(calls, i)
    /\ taken' = [taken EXCEPT ![i] = @ + 1]
    /\ UNCHANGED <<data, cursor, state, current_item_chars, scan_pc, pending, stack,
                   current_tag, current_attribute, output, pc, result, next_id,
                   events_consumed, events>>
    /\ UNCHANGED history_vars
    /\ UNCHANGED api_vars

NextPair == \E i \in Calls : StepCall(i)

SpecPair == InitPair /\ [][NextPair]_vars

\* The frame of a call of parse_to_subtrees(d) that runs alone, after n steps.
RECURSIVE Alone(_, _)
Alone(d, n) == IF n = 0 THEN InitFrame(d) ELSE FrameStep(Alone(d, n - 1))

-----------------------------------------------------------------------------
(* C21 *)

\* No step is put off for ever: the generator is resumed whenever the for loop
\* wants an event, and the loops of parse_to_subtrees run on once entered.
SpecFair == Spec /\ WF_vars(Next)

\* C21: each iteration of the scanner's loop moves the cursor forward by one
\* character while there is input left, and the loop ends only with the cursor
\* at len(data), so after len(data) iterations; each iteration of the final
\* loop takes one Element off the stack and parse_to_subtrees returns with the
\* stack empty; and every call comes to an end, by returning or by raising.
C21_Terminates ==
    /\ [][/\ cursor' # cursor => (cursor < Len(data) /\ cursor' = cursor + 1)
          /\ (scan_pc = "running" /\ scan_pc' # "running") => cursor = Len(data)
          /\ (pc = "drain" /\ pc' = "drain") => Len(stack') = Len(stack) - 1
          /\ pc' = "returned" => stack' = <<>>]_vars
    /\ <>Finished

\* `<a><b><a>b` has returned: the scanner read all ten characters and the
\* final loop took the three open Elements off the stack.
C21_Witness ==
    /\ pc = "returned"
    /\ cursor = Len(data) /\ Len(data) = 10
    /\ Cardinality(drained_ids) = 3
    /\ stack = <<>>

-----------------------------------------------------------------------------
(* C22 *)

\* The texts of the text items of a list of items and of the children of its
\* Elements, in the order of the depth-first walk.
RECURSIVE Texts(_)
Texts(items) ==
    IF items = <<>> THEN <<>>
    ELSE (IF Head(items).kind = "element"
          THEN Texts(Head(items).children)
          ELSE <<Head(items).text>>)
         \o Texts(Tail(items))

\* The lists that hold items: the forest and the children of every Element.
ItemLists ==
    {output} \cup {e.children : e \in Elements(stack) \cup Elements(output)}

\* No text item of the list is empty and no two are next to each other.
TextItemsApart(items) ==
    /\ \A i \in 1..Len(items) : items[i].kind = "text" => items[i].text # <<>>
    /\ \A i \in 1..(Len(items) - 1) :
          ~(items[i].kind = "text" /\ items[i + 1].kind = "text")

IsCharacters(ev) == ev.type = "CHARACTERS" /\ ev.text # <<>>

\* The text t, yielded with the cursor after its last character, is a whole
\* run of the fragment between tags: it is the characters before the cursor,
\* has no "<" in it, starts at the start of the fragment or after a ">", and
\* ends at the end of the fragment or before a "<".
IsTextRun(t) ==
    LET first == cursor - Len(t) + 1
    IN  /\ first >= 1
        /\ t = SubSeq(data, first, cursor)
        /\ \A i \in 1..Len(t) : t[i] # "<"
        /\ first = 1 \/ data[first - 1] = ">"
        /\ cursor = Len(data) \/ data[cursor + 1] = "<"

\* C22: every text item is a text run of the fragment that is not empty,
\* whole from tag to tag, put where the run ended: in the children of the
\* innermost open Element, or in the forest when none is open; no list holds
\* an empty text item or two text items side by side; and the text items of
\* the returned forest are the runs that were not empty, each once, in order.
C22_TextItemsAreWholeRuns ==
    /\ [](\A items \in ItemLists : TextItemsApart(items))
    /\ [](pc = "returned" =>
            Texts(result.value)
              = [i \in 1..Len(SelectSeq(events, IsCharacters)) |->
                    SelectSeq(events, IsCharacters)[i].text])
    /\ [][/\ (pending = <<>> /\ pending' # <<>> /\ pending'[1].type = "CHARACTERS")
               => IsTextRun(pending'[1].text)
          /\ (pending # <<>> /\ pending' = Tail(pending) /\ IsCharacters(Head(pending)))
               => IF stack = <<>>
                  THEN /\ output' = Append(output, TextItem(Head(pending).text))
                       /\ stack' = stack
                  ELSE /\ stack'[Len(stack)].children
                             = Append(stack[Len(stack)].children,
                                      TextItem(Head(pending).text))
                       /\ output' = output
                       /\ Len(stack') = Len(stack)]_vars

\* `<a>a<b/>b` has returned: the runs "a" and "b" are children of the open
\* Element, one on each side of the leaf.
C22_Witness ==
    /\ pc = "returned"
    /\ data = <<"<","a",">","a","<","b","/",">","b">>
    /\ Texts(result.value) = << <<"a">>, <<"b">> >>
    /\ result.value[1].children[1] = TextItem(<<"a">>)
    /\ result.value[1].children[3] = TextItem(<<"b">>)

-----------------------------------------------------------------------------
(* C23 *)

\* The events the loop of parse_to_subtrees has taken so far.
Consumed == SubSeq(events, 1, events_consumed)

\* The END_TAGs taken so far whose tag is an opening tag: between its
\* START_TAG and its END_TAG there is neither TAG_IS_CLOSING nor
\* TAG_IS_SELF_CLOSING.
OpeningTagsSeen ==
    {k \in 1..events_consumed :
        /\ events[k].type = "END_TAG"
        /\ LET start == CHOOSE i \in 1..k :
                           /\ events[i].type = "START_TAG"
                           /\ \A m \in (i + 1)..k : events[m].type # "START_TAG"
           IN  \A m \in start..k :
                   events[m].type \notin {"TAG_IS_CLOSING", "TAG_IS_SELF_CLOSING"}}

\* The ids of the Elements inside a list of children or the forest.
AttachedIds ==
    {e.id : e \in Elements(output)}
        \cup UNION {{c.id : c \in Elements(stack[i].children)} : i \in 1..Len(stack)}

\* C23: while the events are processed, every Element on the stack is not
\* closed, not self-closing and not a closing tag, and is in no list of
\* children and not in the forest; the depth of the stack is the number of
\* opening tags seen less the number of closing tags that closed one; and
\* right after an END_TAG both current_tag and current_attribute are None.
C23_StackHoldsOpenElements ==
    pc = "loop" =>
        /\ \A i \in 1..Len(stack) :
              /\ ~stack[i].is_closed /\ ~stack[i].is_self_closing /\ ~stack[i].is_closing
              /\ stack[i].id \notin AttachedIds
              /\ \A j \in 1..Len(stack) : stack[j].id = stack[i].id => j = i
        /\ Len(stack) = Cardinality(OpeningTagsSeen) - Cardinality(closed_ids)
        /\ (events_consumed > 0 /\ events[events_consumed].type = "END_TAG") =>
              (current_tag = <<>> /\ current_attribute = <<>>)

\* In `<a><b></a>` the END_TAG of </a> has just been taken: two opening tags
\* seen, one closed, one Element left on the stack with the closed one as
\* its child.
C23_Witness ==
    /\ pc = "loop"
    /\ data = <<"<","a",">","<","b",">","<","/","a",">">>
    /\ events_consumed > 0 /\ events[events_consumed].type = "END_TAG"
    /\ Cardinality(OpeningTagsSeen) = 2 /\ Cardinality(closed_ids) = 1
    /\ Len(stack) = 1 /\ Len(stack[1].children) = 1
    /\ current_tag = <<>> /\ current_attribute = <<>>

-----------------------------------------------------------------------------
(* C24 *)

\* The ids of the Elements of a list of items and of the children of its
\* Elements, each as often as it occurs, in the order of the walk.
RECURSIVE ElementIds(_)
ElementIds(items) ==
    IF items = <<>> THEN <<>>
    ELSE (IF Head(items).kind = "element"
          THEN <<Head(items).id>> \o ElementIds(Head(items).children)
          ELSE <<>>)
         \o ElementIds(Tail(items))

NoneTwice(seq) == \A i, j \in 1..Len(seq) : seq[i] = seq[j] => i = j

\* The name given in the k-th tag: the text of its first NAME.
NameOfTag(k) ==
    LET toks == SelectSeq(TagTokens(k), IsNameOrValue)
    IN  IF toks # <<>> /\ toks[1].type = "NAME" THEN toks[1].text ELSE None

\* C24: when parse_to_subtrees returns, the forest holds, counting every
\* depth, one Element for each tag that came to its END_TAG and was not a
\* closing tag that closed an open Element, each of them once; and each
\* Element has the name and the attributes of its own tag, so a closing tag
\* that closed an Element left nothing of itself in the tree.
C24_OneElementPerTag ==
    pc = "returned" =>
        LET ids == ElementIds(result.value)
        IN  /\ NoneTwice(ids)
            /\ {ids[i] : i \in 1..Len(ids)} = (0..(next_id - 1)) \ consumed_ids
            /\ Cardinality(consumed_ids) = Cardinality(closed_ids)
            /\ \A e \in Elements(result.value) :
                  /\ e.tag_name = NameOfTag(e.id + 1)
                  /\ AttributesAsDeclared(e)

\* `<a b>a</b a>` has returned: two tags, one Element, named a with the
\* attribute b, and nothing of the closing tag `</b a>`.
C24_Witness ==
    /\ pc = "returned"
    /\ data = <<"<","a"," ","b",">","a","<","/","b"," ","a",">">>
    /\ next_id = 2 /\ consumed_ids = {1}
    /\ ElementIds(result.value) = <<0>>
    /\ result.value[1].tag_name = <<"a">>
    /\ result.value[1].attributes = << <<<<"b">>, None>> >>

-----------------------------------------------------------------------------
(* api.py: TokenBucket and APIClient.fetch.                                 *)

\* Bounds of the model of api.py: how far the clock runs, in seconds, and how
\* many calls of take and fetch are made.
MaxClock == 3
MaxCalls == 3

\* Relative URLs, as get_info and get_toc make them.
Urls == {"content/info/1", "content/chapters/1"}

\* The bytes a cache file may hold: `{}`, `[]`, and one byte that is not UTF-8.
Contents == {<<123, 125>>, <<91, 93>>, <<255>>}

\* os.path.exists(destination_path) is false.
NoFile == <<>>

\* The file at a destination path, with all its bytes.
File(content) == <<content>>

CacheFiles == {NoFile} \cup {File(content) : content \in Contents}

TokenPeriods == {1, 2}
TokenLimits == {1, 5}

\* bytes.decode('utf-8') on bytes below 128, one character each; any other
\* byte of Contents is no UTF-8 and makes it raise.
CanDecode(content) == \A i \in 1..Len(content) : content[i] < 128

Chr(b) ==
    CASE b = 123 -> "{"
      [] b = 125 -> "}"
      [] b = 91 -> "["
      [] b = 93 -> "]"

Decode(content) == [i \in 1..Len(content) |-> Chr(content[i])]

\* A call that has ended, for the log.
TakeCall(now, outcome) == [call |-> "take", now |-> now, outcome |-> outcome]

FetchCall(relative_url, cached, outcome) ==
    [call |-> "fetch", relative_url |-> relative_url, cached |-> cached,
     outcome |-> outcome]

\* take() up to the line that ends it: `now` and `elapsed_time` are computed,
\* and `elapsed_time.total_seconds() / token_period` reads the name
\* token_period, which is no local, no global of api.py and no builtin (the
\* attribute is self.token_period).  No attribute of the bucket has been
\* assigned by then.
TakeOutcome ==
    Raised("NameError", "name 'token_period' is not defined")

\* The parser is not running.
ParserAtRest ==
    /\ data = <<>>
    /\ cursor = 0
    /\ state = "TEXT"
    /\ current_item_chars = <<>>
    /\ scan_pc = "running"
    /\ pending = <<>>
    /\ stack = <<>>
    /\ current_tag = <<>>
    /\ current_attribute = <<>>
    /\ output = <<>>
    /\ pc = "loop"
    /\ result = [kind |-> "none"]
    /\ next_id = 0
    /\ events_consumed = 0
    /\ closed_ids = {}
    /\ drained_ids = {}
    /\ opened = <<>>
    /\ events = <<>>
    /\ consumed_ids = {}
    /\ calls = <<>>
    /\ taken = <<>>

\* APIClient(base_directory, token_period, token_limit) has been made over a
\* cache directory that may hold files from before: the bucket starts with no
\* tokens and is current to the time it was made.
InitApi ==
    /\ files \in [Urls -> CacheFiles]
    /\ token_period \in TokenPeriods
    /\ token_limit \in TokenLimits
    /\ tokens = 0
    /\ clock = 0
    /\ current_to = 0
    /\ requests = <<>>
    /\ api_log = <<>>
    /\ ParserAtRest

ParserUnchanged ==
    /\ UNCHANGED <<data, cursor, state, current_item_chars, scan_pc, pending, stack,
                   current_tag, current_attribute, output, pc, result, next_id,
                   events_consumed, events>>
    /\ UNCHANGED history_vars
    /\ UNCHANGED pair_vars

\* A second passes.
Tick ==
    /\ clock < MaxClock
    /\ clock' = clock + 1
    /\ UNCHANGED <<files, token_period, token_limit, tokens, current_to, requests,
                   api_log>>
    /\ ParserUnchanged

\* limiter.take(), called by itself.
Take ==
    /\ Len(api_log) < MaxCalls
    /\ api_log' = Append(api_log, TakeCall(clock, TakeOutcome))
    /\ UNCHANGED <<files, token_period, token_limit, tokens, current_to, clock,
                   requests>>
    /\ ParserUnchanged

\* The cached branch of fetch: the whole file is read and decoded.
FetchCached(content) ==
    IF CanDecode(content) THEN Returned(Decode(content))
    ELSE Raised("UnicodeDecodeError", "'utf-8' codec can't decode byte")

\* fetch(relative_url): with the file there it is read and returned; without
\* it, self.limiter.take() is called first and its NameError leaves fetch
\* before the parent directory, the temporary file and the request are made.
Fetch(relative_url) ==
    /\ Len(api_log) < MaxCalls
    /\ IF files[relative_url] # NoFile
       THEN api_log' = Append(api_log,
                FetchCall(relative_url, TRUE, FetchCached(files[relative_url][1])))
       ELSE api_log' = Append(api_log, FetchCall(relative_url, FALSE, TakeOutcome))
    /\ UNCHANGED <<files, token_period, token_limit, tokens, current_to, clock,
                   requests>>
    /\ ParserUnchanged

NextApi ==
    \/ Tick
    \/ Take
    \/ \E relative_url \in Urls : Fetch(relative_url)

SpecApi == InitApi /\ [][NextApi]_vars

-----------------------------------------------------------------------------
(* C25 *)

\* The fetches that have ended and did not find their file.
Misses == {i \in 1..Len(api_log) : api_log[i].call = "fetch" /\ ~api_log[i].cached}

\* The file of a fetch holds what the fetch returned.
Holds(relative_url, value) ==
    /\ files[relative_url] # NoFile
    /\ CanDecode(files[relative_url][1])
    /\ Decode(files[relative_url][1]) = value

\* C25: fetch caches crash-safely: at every moment each destination path is
\* absent or holds one complete content, and a fetch that did not find its
\* file has ended either as a failed download (URLError), leaving no file, or
\* by returning the content with the destination holding all of it.
C25_FetchCachesCrashSafely ==
    /\ \A relative_url \in Urls :
          files[relative_url] \in CacheFiles
    /\ \A i \in Misses :
          LET call == api_log[i]
          IN  \/ /\ call.outcome.kind = "raise"
                 /\ call.outcome.exception = "URLError"
                 /\ files[call.relative_url] = NoFile
              \/ /\ call.outcome.kind = "return"
                 /\ Holds(call.relative_url, call.outcome.value)

-----------------------------------------------------------------------------
(* C26 *)

\* The fetches of relative_url that ended by returning, before the i-th call.
ReturnedBefore(i, relative_url) ==
    {j \in 1..(i - 1) : /\ api_log[j].call = "fetch"
                        /\ api_log[j].relative_url = relative_url
                        /\ api_log[j].outcome.kind = "return"}

\* C26: a fetch after one that returned for the same relative URL is served
\* from the cache file and returns the same content, and the fetches that are
\* not served from the cache each take one token and then send one request:
\* there are as many requests as such fetches, in their order, and no fetch
\* served from the cache adds one.
C26_CachedAfterSuccessOneTokenPerRequest ==
    /\ \A i \in 1..Len(api_log) :
          api_log[i].call = "fetch" =>
             \A j \in ReturnedBefore(i, api_log[i].relative_url) :
                /\ api_log[i].cached
                /\ api_log[i].outcome = api_log[j].outcome
    /\ Len(requests) = Cardinality(Misses)
    /\ \A i \in Misses : api_log[i].outcome.kind = "return"

-----------------------------------------------------------------------------
(* C27 *)

\* The calls of take that have ended.
Takes27 == {i \in 1..Len(api_log) : api_log[i].call = "take"}

\* C27: the token count stays within 0..token_limit, every take that has ended
\* has returned, and when a take has just ended the bucket is trued up to its
\* time: every whole token_period that had elapsed has been accounted for, so
\* less than one token_period lies between current_to and the take.
C27_TakeAccruesAndDebits ==
    /\ tokens \in 0..token_limit
    /\ \A i \in Takes27 : api_log[i].outcome.kind = "return"
    /\ \A i \in Takes27 :
          (i = Len(api_log) /\ api_log[i].now = clock) =>
             clock - current_to < token_period

====
